---- MODULE Spec2Model ----
(***************************************************************************)
(* Fixed point autocorrelation kernel of the EEMBC telecom benchmark       *)
(* (telecom/autcor00/autcor00.c, fxpAutoCorrelation) as a state machine.   *)
(*                                                                         *)
(* Every invocation runs in a context p.  The state of a context is the    *)
(* five arguments of the call (the two buffers by content), the four       *)
(* locals of the function and the position pc in its body.  One action     *)
(* models one step of the nested loop, so that invocations of different    *)
(* contexts interleave at loop-step granularity.                           *)
(*                                                                         *)
(* Three variables observe the run without influencing it: writes (the     *)
(* output indices stored so far, in order), reads (the input indices       *)
(* loaded so far) and overflowed (an addition left the e_s32 range);        *)
(* calls counts the invocations a context has made before the current one. *)
(*                                                                         *)
(* The second part is th_report_results of the test harness               *)
(* (th_lite/src/thlib.c), which decides the exit code of a benchmark run   *)
(* from the iteration count and the CRC and prints the result log.         *)
(***************************************************************************)
EXTENDS Integers, Sequences, FiniteSets, TLC

VARIABLES InputData, AutoCorrData, DataSize, NumberOfLags, Scale,
          i, lag, LastIndex, Accumulator, pc,
          writes, reads, overflowed, calls

\* th_report_results: its arguments tcdef and Expected_CRC, its local
\* exit_code, the conditional-compilation switches of the build, the lines
\* and calls it has issued so far (console), its position rpc and the value
\* it returned
VARIABLES tcdef, Expected_CRC, exit_code, build, console, rpc, returned

kernelVars == <<InputData, AutoCorrData, DataSize, NumberOfLags, Scale,
                i, lag, LastIndex, Accumulator, pc, writes, reads,
                overflowed, calls>>

reportVars == <<tcdef, Expected_CRC, exit_code, build, console, rpc,
                returned>>

vars == <<InputData, AutoCorrData, DataSize, NumberOfLags, Scale,
          i, lag, LastIndex, Accumulator, pc, writes, reads, overflowed,
          calls, tcdef, Expected_CRC, exit_code, build, console, rpc,
          returned>>

----------------------------------------------------------------------------
(* Bounds of the model *)

\* longest input sequence enumerated exhaustively
MaxDataSize == 3

\* largest NumberOfLags passed; above MaxDataSize so that calls with
\* NumberOfLags >= DataSize are part of the model
MaxLags == 4

\* largest NumberOfLags of the two-context specification
ConcLags == 2

\* number of re-invocations a context makes in the two-context specification
MaxCalls == 1

----------------------------------------------------------------------------
(* Machine integers *)

\* e_s32: largest value
MaxS32 == 2147483647

\* e_s32: smallest value
MinS32 == (-MaxS32) - 1

\* e_s16 range
S16 == -32768..32767

\* (e_s16) x : keep the low 16 bits, read as two's complement
ToS16(x) ==
    LET m == x % 65536
    IN  IF m >= 32768 THEN m - 65536 ELSE m

\* a shift that divides rounding toward zero, as signed division does
AsrTowardZero(x, n) ==
    IF n > 30 THEN 0
    ELSE LET q == x \div (2 ^ n)
         IN  IF x < 0 /\ x % (2 ^ n) # 0 THEN q + 1 ELSE q

\* x >> n on a signed operand with 0 <= n: one sign-extending bit shift at
\* a time (x \div 2 rounds toward minus infinity)
RECURSIVE Asr(_, _)
Asr(x, n) ==
    IF n = 0 \/ x = 0 \/ x = -1 THEN x ELSE Asr(x \div 2, n - 1)

\* no shift of the product at all
ShiftByScaleNone(product, sc) == {product}

\* a shift of the product by one bit more than Scale
ShiftByScalePlusOne(product, sc) == {Asr(product, sc + 1)}

\* the values  product >> Scale  can take.  For 0 <= Scale <= 31 the shift is
\* the arithmetic one.  A count that is negative or not below the width of
\* the promoted left operand is undefined in C: the builds either use the
\* low five bits of the count (x86 SAR) or shift every value bit out
\* (ARM ASR, constant folding).
ShiftByScale(product, sc) ==
    IF sc \in 0..31
    THEN {Asr(product, sc)}
    ELSE {Asr(product, sc % 32), IF product < 0 THEN -1 ELSE 0}

\* a + t is representable in e_s32
FitsS32(a, t) ==
    IF t >= 0 THEN a <= MaxS32 - t ELSE a >= MinS32 - t

\* Accumulator += t in 32 bits two's complement (a in e_s32, |t| <= 2^30);
\* a sum outside e_s32 wraps by 2^32, which is also what a wider register
\* leaves in bits 0..31
AddS32(a, t) ==
    IF FitsS32(a, t) THEN a + t
    ELSE IF t >= 0 THEN ((a - MaxS32) + (t - MaxS32)) - 2
    ELSE (a - MinS32) + (t - MinS32)

\* an extraction that takes the accumulator as 17.15 and shifts by 15
ExtractMSW_Q15(acc) == ToS16(Asr(acc, 15))

\* (e_s16) (Accumulator >> 16)
ExtractMSW(acc) == ToS16(Asr(acc, 16))

----------------------------------------------------------------------------
(* Buffers *)

\* capacity of every output buffer: one slot more than the largest
\* NumberOfLags, so that there is always a slot the kernel must not touch
OutCap == MaxLags + 1

\* sample values: the extremes of e_s16, the values around zero and two
\* values whose products reach beyond 16 bits
Samples == {-32768, -1, 0, 1, 256, 32767}

\* the input sequence of the documented scenario
ScenarioInput == [k \in 0..4 |-> <<4, 2, 1, -3, 5>>[k + 1]]

\* input sequences whose shift placement and lag-0 dominance differ
ExtraInputs == {ScenarioInput, [k \in 0..2 |-> <<1, 1, -1>>[k + 1]]}

\* input buffers of exactly n elements
InputsOfSize(n, S) == [0..(n - 1) -> S]

\* what the output buffer holds before a call
OutFill == {21845, -21846}

\* values of Scale: no shift, one bit, a half word, the widest defined
\* shift, and the first count that is undefined
ScaleVals == {0, 1, 16, 31, 32}

\* what an uninitialised local may hold on entry
Garbage == {0, 1431655765}

\* InputData[idx]; a load outside the buffer yields any value
Load(p, idx) ==
    IF idx \in DOMAIN InputData[p] THEN {InputData[p][idx]} ELSE Samples

----------------------------------------------------------------------------
(* Initial states: every context at the entry of fxpAutoCorrelation *)

InitFor(C, inputs, lagset, scales, fills, garbages) ==
    /\ InputData \in [C -> inputs]
    /\ DataSize = [p \in C |-> Cardinality(DOMAIN InputData[p])]
    /\ NumberOfLags \in [C -> lagset]
    /\ Scale \in [C -> scales]
    /\ \E f \in fills :
           AutoCorrData = [p \in C |-> [k \in 0..(OutCap - 1) |-> f[p]]]
    /\ \E g \in garbages :
           /\ i = g
           /\ lag = g
           /\ LastIndex = g
           /\ Accumulator = g
    /\ pc = [p \in C |-> "entry"]
    /\ writes = [p \in C |-> << >>]
    /\ reads = [p \in C |-> {}]
    /\ overflowed = [p \in C |-> FALSE]
    /\ calls = [p \in C |-> 0]

\* th_report_results is not running
ReportIdle ==
    /\ tcdef = [iterations |-> 0, rec_iterations |-> 0, CRC |-> 0,
                duration |-> 0]
    /\ Expected_CRC = 0
    /\ exit_code = "unset"
    /\ build = [CRC_CHECK |-> FALSE, NON_INTRUSIVE_CRC_CHECK |-> FALSE,
                VERIFY_INT |-> FALSE, VERIFY_FLOAT |-> FALSE,
                FLOAT_SUPPORT |-> FALSE]
    /\ console = << >>
    /\ rpc = "idle"
    /\ returned = "none"

AllInputs ==
    UNION {InputsOfSize(n, Samples) : n \in 0..MaxDataSize} \cup ExtraInputs

\* one context, its output buffer filled with 21845, its locals holding
\* either garbage value
Init ==
    /\ InitFor({1}, AllInputs, 0..MaxLags, ScaleVals,
               {[p \in {1} |-> 21845]}, [{1} -> Garbage])
    /\ ReportIdle

----------------------------------------------------------------------------
(* The steps of fxpAutoCorrelation *)

\* for (lag = 0; ...
Enter(p) ==
    /\ pc[p] = "entry"
    /\ lag' = [lag EXCEPT ![p] = 0]
    /\ pc' = [pc EXCEPT ![p] = "outer"]
    /\ UNCHANGED <<InputData, AutoCorrData, DataSize, NumberOfLags, Scale,
                   i, LastIndex, Accumulator, writes, reads, overflowed, calls>>

\* an outer loop that runs while lag <= NumberOfLags
LagBeginInclusive(p) ==
    /\ pc[p] = "outer"
    /\ lag[p] <= NumberOfLags[p]
    /\ Accumulator' = [Accumulator EXCEPT ![p] = 0]
    /\ LastIndex' = [LastIndex EXCEPT ![p] = DataSize[p] - lag[p]]
    /\ i' = [i EXCEPT ![p] = 0]
    /\ pc' = [pc EXCEPT ![p] = "inner"]
    /\ UNCHANGED <<InputData, AutoCorrData, DataSize, NumberOfLags, Scale,
                   lag, writes, reads, overflowed, calls>>

\* an outer loop body that does not clear the accumulator
LagBeginNoReset(p) ==
    /\ pc[p] = "outer"
    /\ lag[p] < NumberOfLags[p]
    /\ LastIndex' = [LastIndex EXCEPT ![p] = DataSize[p] - lag[p]]
    /\ i' = [i EXCEPT ![p] = 0]
    /\ pc' = [pc EXCEPT ![p] = "inner"]
    /\ UNCHANGED <<InputData, AutoCorrData, DataSize, NumberOfLags, Scale,
                   lag, Accumulator, writes, reads, overflowed, calls>>

\* an outer loop body with LastIndex = DataSize at every lag
LagBeginFullLength(p) ==
    /\ pc[p] = "outer"
    /\ lag[p] < NumberOfLags[p]
    /\ Accumulator' = [Accumulator EXCEPT ![p] = 0]
    /\ LastIndex' = [LastIndex EXCEPT ![p] = DataSize[p]]
    /\ i' = [i EXCEPT ![p] = 0]
    /\ pc' = [pc EXCEPT ![p] = "inner"]
    /\ UNCHANGED <<InputData, AutoCorrData, DataSize, NumberOfLags, Scale,
                   lag, writes, reads, overflowed, calls>>

\* lag < NumberOfLags holds: Accumulator = 0; LastIndex = DataSize - lag;
\* for (i = 0; ...
LagBegin(p) ==
    /\ pc[p] = "outer"
    /\ lag[p] < NumberOfLags[p]
    /\ Accumulator' = [Accumulator EXCEPT ![p] = 0]
    /\ LastIndex' = [LastIndex EXCEPT ![p] = DataSize[p] - lag[p]]
    /\ i' = [i EXCEPT ![p] = 0]
    /\ pc' = [pc EXCEPT ![p] = "inner"]
    /\ UNCHANGED <<InputData, AutoCorrData, DataSize, NumberOfLags, Scale,
                   lag, writes, reads, overflowed, calls>>

\* an inner loop body whose accumulator is one static shared by all contexts
InnerStepShared(p) ==
    /\ pc[p] = "inner"
    /\ i[p] < LastIndex[p]
    /\ \E a \in Load(p, i[p]), b \in Load(p, i[p] + lag[p]) :
         \E t \in ShiftByScale(a * b, Scale[p]) :
            /\ Accumulator' = [q \in DOMAIN Accumulator |->
                                  AddS32(Accumulator[p], t)]
            /\ overflowed' = [overflowed EXCEPT
                                 ![p] = @ \/ ~FitsS32(Accumulator[p], t)]
    /\ reads' = [reads EXCEPT ![p] = @ \cup {i[p], i[p] + lag[p]}]
    /\ i' = [i EXCEPT ![p] = @ + 1]
    /\ UNCHANGED <<InputData, AutoCorrData, DataSize, NumberOfLags, Scale,
                   lag, LastIndex, pc, writes, calls>>

\* i < LastIndex holds:
\* Accumulator += ((e_s32) InputData[i] * (e_s32) InputData[i+lag]) >> Scale;
\* i++
InnerStep(p) ==
    /\ pc[p] = "inner"
    /\ i[p] < LastIndex[p]
    /\ \E a \in Load(p, i[p]), b \in Load(p, i[p] + lag[p]) :
         \E t \in ShiftByScale(a * b, Scale[p]) :
            /\ Accumulator' = [Accumulator EXCEPT ![p] = AddS32(@, t)]
            /\ overflowed' = [overflowed EXCEPT
                                 ![p] = @ \/ ~FitsS32(Accumulator[p], t)]
    /\ reads' = [reads EXCEPT ![p] = @ \cup {i[p], i[p] + lag[p]}]
    /\ i' = [i EXCEPT ![p] = @ + 1]
    /\ UNCHANGED <<InputData, AutoCorrData, DataSize, NumberOfLags, Scale,
                   lag, LastIndex, pc, writes, calls>>

\* a store one slot too far: AutoCorrData[lag + 1]
ExtractNext(p) ==
    /\ pc[p] = "inner"
    /\ ~(i[p] < LastIndex[p])
    /\ AutoCorrData' = [AutoCorrData EXCEPT
                           ![p][lag[p] + 1] = ExtractMSW(Accumulator[p])]
    /\ writes' = [writes EXCEPT ![p] = Append(@, lag[p] + 1)]
    /\ lag' = [lag EXCEPT ![p] = @ + 1]
    /\ pc' = [pc EXCEPT ![p] = "outer"]
    /\ UNCHANGED <<InputData, DataSize, NumberOfLags, Scale,
                   i, LastIndex, Accumulator, reads, overflowed, calls>>

\* i < LastIndex fails:
\* AutoCorrData[lag] = (e_s16) (Accumulator >> 16); lag++
Extract(p) ==
    /\ pc[p] = "inner"
    /\ ~(i[p] < LastIndex[p])
    /\ AutoCorrData' = [AutoCorrData EXCEPT
                           ![p][lag[p]] = ExtractMSW(Accumulator[p])]
    /\ writes' = [writes EXCEPT ![p] = Append(@, lag[p])]
    /\ lag' = [lag EXCEPT ![p] = @ + 1]
    /\ pc' = [pc EXCEPT ![p] = "outer"]
    /\ UNCHANGED <<InputData, DataSize, NumberOfLags, Scale,
                   i, LastIndex, Accumulator, reads, overflowed, calls>>

\* lag < NumberOfLags fails: the function returns
Return(p) ==
    /\ pc[p] = "outer"
    /\ ~(lag[p] < NumberOfLags[p])
    /\ pc' = [pc EXCEPT ![p] = "done"]
    /\ UNCHANGED <<InputData, AutoCorrData, DataSize, NumberOfLags, Scale,
                   i, lag, LastIndex, Accumulator, writes, reads, overflowed,
                   calls>>

\* one step of the invocation of context p
Step(p) ==
    \/ Enter(p)
    \/ LagBegin(p)
    \/ InnerStep(p)
    \/ Extract(p)
    \/ Return(p)

Next ==
    \/ (\E p \in DOMAIN pc : Enter(p)) /\ UNCHANGED reportVars
    \/ (\E p \in DOMAIN pc : LagBegin(p)) /\ UNCHANGED reportVars
    \/ (\E p \in DOMAIN pc : InnerStep(p)) /\ UNCHANGED reportVars
    \/ (\E p \in DOMAIN pc : Extract(p)) /\ UNCHANGED reportVars
    \/ (\E p \in DOMAIN pc : Return(p)) /\ UNCHANGED reportVars

\* one invocation in one context
Spec == Init /\ [][Next]_vars

----------------------------------------------------------------------------
(* Two contexts, each invoking the kernel repeatedly on its own buffers *)

\* input sequences of the two-context specification
ConcInputs ==
    {[k \in 0..0 |-> 256],
     [k \in 0..1 |-> <<-32768, 256>>[k + 1]]}

\* Scale values of the two-context specification
ConcScales == {0, 32}

\* the two contexts start on output buffers of different content and with
\* different values left in their locals
InitConc ==
    /\ InitFor({1, 2}, ConcInputs, 0..ConcLags, ConcScales,
               {[p \in {1, 2} |-> IF p = 1 THEN 21845 ELSE -21846]},
               {[p \in {1, 2} |-> IF p = 1 THEN 0 ELSE 1431655765]})
    /\ ReportIdle

\* the caller invokes fxpAutoCorrelation again with the same arguments, as
\* the timed loop of the benchmark does: the output buffer is as the earlier
\* call left it and the locals hold what the earlier frame left behind
Call(p) ==
    /\ pc[p] = "done"
    /\ calls[p] < MaxCalls
    /\ pc' = [pc EXCEPT ![p] = "entry"]
    /\ calls' = [calls EXCEPT ![p] = @ + 1]
    /\ writes' = [writes EXCEPT ![p] = << >>]
    /\ reads' = [reads EXCEPT ![p] = {}]
    /\ overflowed' = [overflowed EXCEPT ![p] = FALSE]
    /\ UNCHANGED <<InputData, AutoCorrData, DataSize, NumberOfLags, Scale,
                   i, lag, LastIndex, Accumulator>>

NextConc ==
    \/ (\E p \in DOMAIN pc : Enter(p)) /\ UNCHANGED reportVars
    \/ (\E p \in DOMAIN pc : LagBegin(p)) /\ UNCHANGED reportVars
    \/ (\E p \in DOMAIN pc : InnerStep(p)) /\ UNCHANGED reportVars
    \/ (\E p \in DOMAIN pc : Extract(p)) /\ UNCHANGED reportVars
    \/ (\E p \in DOMAIN pc : Return(p)) /\ UNCHANGED reportVars
    \/ (\E p \in DOMAIN pc : Call(p)) /\ UNCHANGED reportVars

SpecConc == InitConc /\ [][NextConc]_vars

----------------------------------------------------------------------------
(* th_report_results *)

\* the exit codes; SUCCESS is the spelling the verdict test uses for the code
\* exit_code is initialised with
Success == "Success"
Failure == "Failure"
SUCCESS == Success

\* the line l when the condition c holds, nothing otherwise
LineIf(c, l) == IF c THEN <<l>> ELSE << >>

\* values of tcdef->iterations and tcdef->rec_iterations
IterationVals == {0, 1, 2}

\* values of tcdef->CRC and Expected_CRC (e_u16)
CRCVals == {0, 21930, 65535}

\* values of tcdef->duration
DurationVals == {0, 5}

\* the switches of a build
Builds ==
    [CRC_CHECK : BOOLEAN, NON_INTRUSIVE_CRC_CHECK : BOOLEAN,
     VERIFY_INT : BOOLEAN, VERIFY_FLOAT : BOOLEAN, FLOAT_SUPPORT : BOOLEAN]

\* th_report_results is entered; no kernel invocation is in progress
InitReport ==
    /\ InitFor({}, AllInputs, 0..MaxLags, ScaleVals,
               [{} -> OutFill], [{} -> Garbage])
    /\ tcdef \in [iterations : IterationVals, rec_iterations : IterationVals,
                  CRC : CRCVals, duration : DurationVals]
    /\ Expected_CRC \in CRCVals
    /\ build \in Builds
    /\ exit_code = "unset"
    /\ console = << >>
    /\ rpc = "entry"
    /\ returned = "none"

\* the lines of report_info
ReportInfoLines ==
    <<">>---", ">> EEMBC Component", ">> EEMBC Member Company",
      ">> Target Processor", ">> Target Platform",
      ">> Target Timer Available", ">> Target Timer Intrusive",
      ">> Target Timer Rate", ">> Target Timer Granularity">>
    \o <<IF build.CRC_CHECK THEN ">> Required Iterations"
                            ELSE ">> Recommended Iterations">>
    \o LineIf(tcdef.iterations # tcdef.rec_iterations,
              ">> Programmed Iterations")
    \o <<">> Bench Mark">>

\* int exit_code = Success; report_info(tcdef);
ReportInfo ==
    /\ rpc = "entry"
    /\ exit_code' = Success
    /\ console' = console \o ReportInfoLines
    /\ rpc' = "results"
    /\ UNCHANGED <<tcdef, Expected_CRC, build, returned>>
    /\ UNCHANGED kernelVars

\* the Standard Results Section
ResultsSection ==
    /\ rpc = "results"
    /\ console' = console
           \o <<IF build.CRC_CHECK THEN "--  Intrusive CRC"
                ELSE IF build.NON_INTRUSIVE_CRC_CHECK
                     THEN "--  Non-Intrusive CRC"
                     ELSE "--  No CRC check">>
           \o <<"--  Iterations", "--  Target Duration">>
           \o (IF build.VERIFY_INT
               THEN <<"--  v1", "--  v2", "--  v3", "--  v4">> ELSE << >>)
           \o (IF build.VERIFY_FLOAT /\ build.FLOAT_SUPPORT
               THEN <<"--  v1v2", "--  v3v4">> ELSE << >>)
           \o (IF build.FLOAT_SUPPORT /\ tcdef.duration > 0
               THEN <<"--  Iterations/Sec", "--  Total Run Time",
                      "--  Time / Iter">>
               ELSE << >>)
    /\ rpc' = "failure"
    /\ UNCHANGED <<tcdef, Expected_CRC, exit_code, build, returned>>
    /\ UNCHANGED kernelVars

\* the CRC comparison is compiled in
CRCChecked == build.CRC_CHECK \/ build.NON_INTRUSIVE_CRC_CHECK

\* a Failure Section that compares the CRC only
FailureSectionCRCOnly ==
    /\ rpc = "failure"
    /\ LET crcBad == CRCChecked /\ tcdef.CRC # Expected_CRC
       IN  /\ console' = console
                  \o LineIf(crcBad, "--  Failure: Actual CRC")
           /\ exit_code' = IF crcBad THEN Failure ELSE exit_code
    /\ rpc' = "verdict"
    /\ UNCHANGED <<tcdef, Expected_CRC, build, returned>>
    /\ UNCHANGED kernelVars

\* the Failure Section: the CRC comparison, when compiled in, then the
\* comparison of the iteration counts
FailureSection ==
    /\ rpc = "failure"
    /\ LET crcBad == CRCChecked /\ tcdef.CRC # Expected_CRC
           itBad == tcdef.iterations # tcdef.rec_iterations
       IN  /\ console' = console
                  \o LineIf(crcBad, "--  Failure: Actual CRC")
                  \o LineIf(itBad, "--  Failure: Actual iterations")
           /\ exit_code' = IF crcBad \/ itBad THEN Failure ELSE exit_code
    /\ rpc' = "verdict"
    /\ UNCHANGED <<tcdef, Expected_CRC, build, returned>>
    /\ UNCHANGED kernelVars

\* if (exit_code == SUCCESS) DONE else Failure
Verdict ==
    /\ rpc = "verdict"
    /\ console' = Append(console, IF exit_code = SUCCESS THEN ">> DONE!"
                                                         ELSE ">> Failure")
    /\ rpc' = "al"
    /\ UNCHANGED <<tcdef, Expected_CRC, exit_code, build, returned>>
    /\ UNCHANGED kernelVars

\* al_report_results();
AlReportResults ==
    /\ rpc = "al"
    /\ console' = Append(console, "al_report_results")
    /\ rpc' = "trailer"
    /\ UNCHANGED <<tcdef, Expected_CRC, exit_code, build, returned>>
    /\ UNCHANGED kernelVars

\* Match TH Regular output: the BM and ID lines
Trailer ==
    /\ rpc = "trailer"
    /\ console' = console \o <<">> BM", ">> ID">>
    /\ rpc' = "return"
    /\ UNCHANGED <<tcdef, Expected_CRC, exit_code, build, returned>>
    /\ UNCHANGED kernelVars

\* return exit_code;
ReportReturn ==
    /\ rpc = "return"
    /\ returned' = exit_code
    /\ rpc' = "returned"
    /\ UNCHANGED <<tcdef, Expected_CRC, exit_code, build, console>>
    /\ UNCHANGED kernelVars

NextReport ==
    \/ ReportInfo
    \/ ResultsSection
    \/ FailureSection
    \/ Verdict
    \/ AlReportResults
    \/ Trailer
    \/ ReportReturn

\* one call of th_report_results
SpecReport == InitReport /\ [][NextReport]_vars

----------------------------------------------------------------------------
(* Vocabulary of the properties *)

\* the call of context p satisfies 0 <= NumberOfLags < DataSize
ValidCall(p) == 0 <= NumberOfLags[p] /\ NumberOfLags[p] < DataSize[p]

\* the call of context p has returned
Done(p) == pc[p] = "done"

\* |x|
Abs(x) == IF x < 0 THEN -x ELSE x

\* floor(prod / 2^sc) for 0 <= sc <= 60, never forming a power above 2^30
FloorPow2(prod, sc) ==
    IF sc <= 30 THEN prod \div (2 ^ sc)
    ELSE (prod \div (2 ^ 30)) \div (2 ^ (sc - 30))

\* term k of the lag-L sum over x, scaled by sc
ScaledTerm(x, L, sc, k) == FloorPow2(x[k] * x[k + L], sc)

\* sum over k in 0..m-1 of the high parts floor(term / 2^16)
RECURSIVE HiSum(_, _, _, _)
HiSum(x, L, sc, m) ==
    IF m <= 0 THEN 0
    ELSE HiSum(x, L, sc, m - 1) + (ScaledTerm(x, L, sc, m - 1) \div 65536)

\* sum over k in 0..m-1 of the low parts term mod 2^16
RECURSIVE LoSum(_, _, _, _)
LoSum(x, L, sc, m) ==
    IF m <= 0 THEN 0
    ELSE LoSum(x, L, sc, m - 1) + (ScaledTerm(x, L, sc, m - 1) % 65536)

\* low 16 bits, signed, of floor(A / 2^16), A the sum of the n - L scaled
\* terms: A = 65536 * HiSum + LoSum, and reducing A modulo 2^32 leaves the
\* low 16 bits of floor(A / 2^16) as they are
SpecCoeff(x, n, L, sc) ==
    ToS16(HiSum(x, L, sc, n - L) + (LoSum(x, L, sc, n - L) \div 65536))

\* the input of context p is all zero
AllZero(p) == \A k \in DOMAIN InputData[p] : InputData[p][k] = 0

----------------------------------------------------------------------------
(* C1 *)

\* C1 as stated: after a valid call with any Scale >= 0, every output[L],
\* L in 0..NumberOfLags-1, is the low 16 bits (signed) of floor(A_L / 2^16),
\* A_L the 32-bit sum of floor(input[i] * input[i+L] / 2^Scale).
C1_AnyScale ==
    \A p \in DOMAIN pc :
        (Done(p) /\ ValidCall(p) /\ Scale[p] >= 0) =>
            \A L \in 0..(NumberOfLags[p] - 1) :
                AutoCorrData[p][L] =
                    SpecCoeff(InputData[p], DataSize[p], L, Scale[p])

\* C1 amended: the same for 0 <= Scale <= 31, the shift counts C defines for
\* the 32-bit product.
C1_Coefficients ==
    \A p \in DOMAIN pc :
        (Done(p) /\ ValidCall(p) /\ Scale[p] \in 0..31) =>
            \A L \in 0..(NumberOfLags[p] - 1) :
                AutoCorrData[p][L] =
                    SpecCoeff(InputData[p], DataSize[p], L, Scale[p])

\* a valid call with a real shift has returned two coefficients that are
\* neither 0 nor -1
C1_Witness ==
    \E p \in DOMAIN pc :
        /\ Done(p) /\ ValidCall(p)
        /\ Scale[p] = 1
        /\ NumberOfLags[p] = 2
        /\ AutoCorrData[p][0] \notin {0, -1}
        /\ AutoCorrData[p][1] \notin {0, -1}

----------------------------------------------------------------------------
(* C2 *)

\* C2: both right shifts round toward minus infinity.  The coefficient stored
\* from an accumulator in -65536..-1 is -1 and from one in 0..65535 is 0; the
\* first term of a lag is the floor of the product over 2^Scale; and the
\* scenario input [4, 2, 1, -3, 5], 3 lags, Scale 0 yields [0, -1, 0].
C2_FloorShifts ==
    \A p \in DOMAIN pc :
        /\ (pc[p] = "outer" /\ Len(writes[p]) > 0) =>
               /\ Accumulator[p] \in (-65536)..(-1) =>
                      AutoCorrData[p][lag[p] - 1] = -1
               /\ Accumulator[p] \in 0..65535 =>
                      AutoCorrData[p][lag[p] - 1] = 0
        /\ (pc[p] = "inner" /\ i[p] = 1 /\ ValidCall(p)
              /\ Scale[p] \in 0..30) =>
               LET prod == InputData[p][0] * InputData[p][lag[p]]
               IN  (prod - Accumulator[p] * (2 ^ Scale[p]))
                       \in 0..((2 ^ Scale[p]) - 1)
        /\ (Done(p) /\ InputData[p] = ScenarioInput
              /\ NumberOfLags[p] = 3 /\ Scale[p] = 0) =>
               /\ AutoCorrData[p][0] = 0
               /\ AutoCorrData[p][1] = -1
               /\ AutoCorrData[p][2] = 0

\* the scenario call has returned
C2_Witness ==
    \E p \in DOMAIN pc :
        /\ Done(p) /\ InputData[p] = ScenarioInput
        /\ NumberOfLags[p] = 3 /\ Scale[p] = 0

\* a negative product was shifted by a real count into the accumulator
C2_WitnessTerm ==
    \E p \in DOMAIN pc :
        /\ pc[p] = "inner" /\ i[p] = 1 /\ ValidCall(p)
        /\ Scale[p] = 1
        /\ InputData[p][0] * InputData[p][lag[p]] = -1

----------------------------------------------------------------------------
(* C3 *)

\* C3: during a valid call the output indices stored so far are 0, 1, 2, ...
\* in this order, none is >= NumberOfLags, and on return exactly
\* NumberOfLags of them have been stored (none when NumberOfLags = 0).
C3_WriteOrder ==
    \A p \in DOMAIN pc :
        ValidCall(p) =>
            /\ Len(writes[p]) <= NumberOfLags[p]
            /\ \A k \in 1..Len(writes[p]) : writes[p][k] = k - 1
            /\ Done(p) => Len(writes[p]) = NumberOfLags[p]
            /\ (NumberOfLags[p] = 0) =>
                   \A k \in DOMAIN AutoCorrData[p] :
                       AutoCorrData[p][k] \in OutFill

\* a valid call with three lags has returned
C3_Witness ==
    \E p \in DOMAIN pc :
        Done(p) /\ ValidCall(p) /\ NumberOfLags[p] = 3

----------------------------------------------------------------------------
(* C4 *)

\* C4: for an all-zero input, a valid NumberOfLags and Scale >= 0, every
\* coefficient the kernel has stored is 0.
C4_ZeroInput ==
    \A p \in DOMAIN pc :
        (AllZero(p) /\ ValidCall(p) /\ Scale[p] >= 0) =>
            \A k \in 1..Len(writes[p]) : AutoCorrData[p][writes[p][k]] = 0

\* a call on three zeros with two lags and the undefined shift count 32 has
\* returned
C4_Witness ==
    \E p \in DOMAIN pc :
        /\ Done(p) /\ AllZero(p) /\ ValidCall(p)
        /\ DataSize[p] = 3 /\ NumberOfLags[p] = 2
        /\ Scale[p] = 32

----------------------------------------------------------------------------
(* C5 *)

\* the reference kernel of C5: the unshifted products summed, then
\* (sum >> 16) truncated to 16 bits
RECURSIVE PlainHi(_, _, _)
PlainHi(x, L, m) ==
    IF m <= 0 THEN 0
    ELSE PlainHi(x, L, m - 1) + ((x[m - 1] * x[m - 1 + L]) \div 65536)

RECURSIVE PlainLo(_, _, _)
PlainLo(x, L, m) ==
    IF m <= 0 THEN 0
    ELSE PlainLo(x, L, m - 1) + ((x[m - 1] * x[m - 1 + L]) % 65536)

UnshiftedCoeff(x, n, L) ==
    ToS16(PlainHi(x, L, n - L) + (PlainLo(x, L, n - L) \div 65536))

\* C5: with Scale = 0 every coefficient of a valid call equals the one of the
\* reference kernel that never shifts the products.
C5_ScaleZero ==
    \A p \in DOMAIN pc :
        (Done(p) /\ ValidCall(p) /\ Scale[p] = 0) =>
            \A L \in 0..(NumberOfLags[p] - 1) :
                AutoCorrData[p][L] =
                    UnshiftedCoeff(InputData[p], DataSize[p], L)

\* a valid call with Scale = 0 has returned a coefficient other than 0, -1
C5_Witness ==
    \E p \in DOMAIN pc :
        /\ Done(p) /\ ValidCall(p) /\ Scale[p] = 0
        /\ NumberOfLags[p] >= 2
        /\ AutoCorrData[p][1] \notin {0, -1}

----------------------------------------------------------------------------
(* C6 *)

\* the calls of contexts p and q have identical arguments
SameArguments(p, q) ==
    /\ InputData[p] = InputData[q]
    /\ DataSize[p] = DataSize[q]
    /\ NumberOfLags[p] = NumberOfLags[q]
    /\ Scale[p] = Scale[q]

\* the calls of contexts p and q have stored the same coefficients
SameOutput(p, q) ==
    \A L \in 0..(NumberOfLags[p] - 1) :
        AutoCorrData[p][L] = AutoCorrData[q][L]

\* C6 as stated: two returned invocations with identical arguments have
\* identical output sequences, whatever the output buffers held before and
\* however many calls each context made before.
C6_Deterministic ==
    \A p \in DOMAIN pc : \A q \in DOMAIN pc :
        (Done(p) /\ Done(q) /\ SameArguments(p, q)) => SameOutput(p, q)

\* C6 amended: the same for invocations with 0 <= Scale <= 31.
C6_DeterministicDefinedShift ==
    \A p \in DOMAIN pc : \A q \in DOMAIN pc :
        (Done(p) /\ Done(q) /\ SameArguments(p, q) /\ Scale[p] \in 0..31) =>
            SameOutput(p, q)

\* two contexts have returned from calls with identical arguments, one on
\* its first call and a buffer that still shows the initial fill, the other
\* on a later call
C6_Witness ==
    /\ Done(1) /\ Done(2) /\ SameArguments(1, 2)
    /\ Scale[1] = 0
    /\ NumberOfLags[1] = 1
    /\ calls[1] = 0 /\ calls[2] > 0
    /\ AutoCorrData[1][0] \notin {0, -1}
    /\ AutoCorrData[1][1] # AutoCorrData[2][1]

----------------------------------------------------------------------------
(* C7 *)

\* C7 as stated: after a valid call on an input that is not all zero,
\* |output[0]| >= |output[L]| for every L in 1..NumberOfLags-1.
C7_Lag0Largest ==
    \A p \in DOMAIN pc :
        (Done(p) /\ ValidCall(p) /\ ~AllZero(p)) =>
            \A L \in 1..(NumberOfLags[p] - 1) :
                Abs(AutoCorrData[p][0]) >= Abs(AutoCorrData[p][L])

\* C7 amended: after a valid call with Scale = 0 in which no addition
\* overflowed, output[0] >= 0 and -output[0] - 1 <= output[L] <= output[0]
\* for every L in 1..NumberOfLags-1.
C7_Lag0Dominates ==
    \A p \in DOMAIN pc :
        (Done(p) /\ ValidCall(p) /\ ~AllZero(p)
           /\ Scale[p] = 0 /\ ~overflowed[p]) =>
            /\ NumberOfLags[p] >= 1 => AutoCorrData[p][0] >= 0
            /\ \A L \in 1..(NumberOfLags[p] - 1) :
                   /\ AutoCorrData[p][L] <= AutoCorrData[p][0]
                   /\ AutoCorrData[p][L] >= (-AutoCorrData[p][0]) - 1

\* an unscaled call without overflow has returned a positive lag-0
\* coefficient and a negative lag-1 coefficient
C7_Witness ==
    \E p \in DOMAIN pc :
        /\ Done(p) /\ ValidCall(p) /\ ~AllZero(p)
        /\ Scale[p] = 0 /\ ~overflowed[p]
        /\ NumberOfLags[p] = 2
        /\ AutoCorrData[p][0] > 0
        /\ AutoCorrData[p][1] < -1

----------------------------------------------------------------------------
(* C8 *)

\* C8: no step changes an element of the input sequence, an argument, or an
\* output slot at an index >= NumberOfLags.
C8_Frame ==
    [][\A p \in DOMAIN pc :
           /\ InputData'[p] = InputData[p]
           /\ DataSize'[p] = DataSize[p]
           /\ NumberOfLags'[p] = NumberOfLags[p]
           /\ Scale'[p] = Scale[p]
           /\ \A k \in DOMAIN AutoCorrData[p] :
                  k >= NumberOfLags[p] =>
                      AutoCorrData'[p][k] = AutoCorrData[p][k]]_vars

\* a call has returned after storing its last coefficient right below a slot
\* it had to leave alone
C8_Witness ==
    \E p \in DOMAIN pc :
        /\ Done(p) /\ NumberOfLags[p] >= 2
        /\ Len(writes[p]) = NumberOfLags[p]
        /\ AutoCorrData[p][NumberOfLags[p]] \in OutFill

----------------------------------------------------------------------------
(* C9 *)

\* the accumulator values lag L can end with when the kernel runs alone on
\* x: the m terms added in order
RECURSIVE AloneAcc(_, _, _, _)
AloneAcc(x, L, sc, m) ==
    IF m <= 0 THEN {0}
    ELSE {AddS32(a, t) : a \in AloneAcc(x, L, sc, m - 1),
                         t \in ShiftByScale(x[m - 1] * x[m - 1 + L], sc)}

\* the coefficients lag L can get when the kernel runs alone
AloneCoeffs(x, n, L, sc) == {ExtractMSW(a) : a \in AloneAcc(x, L, sc, n - L)}

\* what belongs to context q: its buffers, arguments, locals and position
OwnState(q) ==
    <<InputData[q], AutoCorrData[q], DataSize[q], NumberOfLags[q], Scale[q],
      i[q], lag[q], LastIndex[q], Accumulator[q], pc[q],
      writes[q], reads[q], overflowed[q], calls[q]>>

\* C9: under every interleaving of the loop steps of two invocations on
\* disjoint buffers, a step that changes something of one context changes
\* nothing that belongs to the other, and each invocation returns with
\* coefficients it can produce when run alone.
C9_Isolation ==
    [][\A p \in DOMAIN pc :
           /\ OwnState(p)' # OwnState(p) =>
                  \A q \in DOMAIN pc \ {p} : OwnState(q)' = OwnState(q)
           /\ (Done(p)' /\ ~Done(p)) =>
                  \A L \in 0..(NumberOfLags[p] - 1) :
                      AutoCorrData'[p][L] \in
                          AloneCoeffs(InputData[p], DataSize[p], L,
                                      Scale[p])]_vars

\* one context is inside its inner loop with a non-zero accumulator while
\* the other has stored a coefficient and is inside a later lag
C9_Witness ==
    /\ pc[1] = "inner" /\ i[1] = 1 /\ Accumulator[1] # 0
    /\ pc[2] = "inner" /\ lag[2] = 1 /\ i[2] = 1 /\ Accumulator[2] # 0

----------------------------------------------------------------------------
(* C10 *)

\* C10 as stated: a call with NumberOfLags >= DataSize reads the input at an
\* index >= DataSize.
C10_ReadsOutOfBounds ==
    \A p \in DOMAIN pc :
        (Done(p) /\ NumberOfLags[p] >= DataSize[p]) =>
            \E r \in reads[p] : r >= DataSize[p]

\* C10 amended: the kernel has no failure path and validates nothing: a call
\* with NumberOfLags >= DataSize runs to its return like any other, stores
\* NumberOfLags coefficients, reads the input only at indices
\* 0..DataSize-1 and stores 0 for every lag >= DataSize.
C10_NoValidation ==
    \A p \in DOMAIN pc :
        /\ reads[p] \subseteq 0..(DataSize[p] - 1)
        /\ Done(p) => Len(writes[p]) = NumberOfLags[p]
        /\ \A k \in 1..Len(writes[p]) :
               writes[p][k] >= DataSize[p] =>
                   AutoCorrData[p][writes[p][k]] = 0

\* a call with NumberOfLags > DataSize has returned after reading the last
\* element of its input
C10_Witness ==
    \E p \in DOMAIN pc :
        /\ Done(p) /\ NumberOfLags[p] > DataSize[p]
        /\ DataSize[p] >= 2
        /\ (DataSize[p] - 1) \in reads[p]

----------------------------------------------------------------------------
(* C11 *)

\* C11: in a valid call every input read is in bounds: inside the inner loop
\* 0 <= i, LastIndex = DataSize - lag and a pending step has
\* i + lag <= DataSize - 1; every index read so far is in 0..DataSize-1;
\* and when the coefficient of lag L is stored exactly DataSize - L terms,
\* at least one, were accumulated for it (i counts them).
C11_ReadsInBounds ==
    \A p \in DOMAIN pc :
        ValidCall(p) =>
            /\ reads[p] \subseteq 0..(DataSize[p] - 1)
            /\ pc[p] = "inner" =>
                   /\ 0 <= i[p] /\ i[p] <= LastIndex[p]
                   /\ LastIndex[p] = DataSize[p] - lag[p]
                   /\ i[p] < LastIndex[p] => i[p] + lag[p] <= DataSize[p] - 1
            /\ (pc[p] \in {"outer", "done"} /\ Len(writes[p]) > 0) =>
                   /\ i[p] = DataSize[p] - (lag[p] - 1)
                   /\ i[p] >= 1

\* a valid call has stored the coefficient of lag 1 from two terms, the last
\* of which read the last element of the input
C11_Witness ==
    \E p \in DOMAIN pc :
        /\ ValidCall(p) /\ pc[p] = "outer"
        /\ lag[p] = 2 /\ i[p] = 2 /\ DataSize[p] = 3
        /\ reads[p] = {0, 1, 2}

----------------------------------------------------------------------------
(* C12 *)

\* the input on which the placement of the shift shows
PlacementInput == [k \in 0..2 |-> <<1, 1, -1>>[k + 1]]

\* the sum over k in 0..m-1 of the unshifted products, in 32 bits
RECURSIVE PlainSum(_, _, _)
PlainSum(x, L, m) ==
    IF m <= 0 THEN 0
    ELSE AddS32(PlainSum(x, L, m - 1), x[m - 1] * x[m - 1 + L])

\* the coefficient of the variant kernel that sums the unshifted products
\* and shifts the sum once by sc
SumThenShiftCoeff(x, n, L, sc) ==
    ToS16(Asr(Asr(PlainSum(x, L, n - L), sc), 16))

\* C12: the shift is applied to each product before it is added: the first
\* term of a lag leaves floor(product / 2^Scale) in the accumulator, and on
\* input [1, 1, -1] with Scale = 1 the kernel stores -1 at lag 1 where the
\* variant that shifts the sum once gives 0.
C12_ShiftPerTerm ==
    \A p \in DOMAIN pc :
        /\ (pc[p] = "inner" /\ i[p] = 1 /\ ValidCall(p)
              /\ Scale[p] \in 1..31) =>
               Accumulator[p] =
                   FloorPow2(InputData[p][0] * InputData[p][lag[p]], Scale[p])
        /\ (Done(p) /\ InputData[p] = PlacementInput
              /\ NumberOfLags[p] = 2 /\ Scale[p] = 1) =>
               /\ AutoCorrData[p][1] = -1
               /\ SumThenShiftCoeff(InputData[p], DataSize[p], 1, Scale[p]) = 0

\* the call on [1, 1, -1] with two lags and Scale = 1 has returned a lag-1
\* coefficient that differs from the one of the variant
C12_Witness ==
    \E p \in DOMAIN pc :
        /\ Done(p) /\ InputData[p] = PlacementInput
        /\ NumberOfLags[p] = 2 /\ Scale[p] = 1
        /\ AutoCorrData[p][1] #
               SumThenShiftCoeff(InputData[p], DataSize[p], 1, Scale[p])

----------------------------------------------------------------------------
(* C13 *)

\* the product the inner loop formed last fits in e_s32
ProductsFit(p) ==
    (pc[p] = "inner" /\ i[p] >= 1) =>
        LET prod == InputData[p][i[p] - 1] * InputData[p][i[p] - 1 + lag[p]]
        IN  prod >= MinS32 /\ prod <= MaxS32

\* DataSize < 2^(Scale + 1); DataSize is an e_s16, so every Scale >= 15 has it
FewTermsForScale(p) ==
    Scale[p] >= 15 \/ DataSize[p] < 2 ^ (Scale[p] + 1)

\* C13 as stated: in a valid call with Scale >= 0 every product fits in
\* e_s32 and no addition to the accumulator leaves the e_s32 range.
C13_NeverOverflows ==
    \A p \in DOMAIN pc :
        /\ ProductsFit(p)
        /\ (ValidCall(p) /\ Scale[p] >= 0) => ~overflowed[p]

\* C13 amended: every product fits in e_s32, and no addition leaves the
\* e_s32 range in a valid call with 0 <= Scale <= 31 and
\* DataSize < 2^(Scale + 1).
C13_NoOverflowWhenScaled ==
    \A p \in DOMAIN pc :
        /\ ProductsFit(p)
        /\ (ValidCall(p) /\ Scale[p] \in 0..31 /\ FewTermsForScale(p)) =>
               ~overflowed[p]

\* a valid call with Scale = 1 has summed three terms of 2^29 without
\* leaving the range
C13_Witness ==
    \E p \in DOMAIN pc :
        /\ ValidCall(p) /\ Scale[p] = 1 /\ DataSize[p] = 3
        /\ pc[p] = "inner" /\ i[p] = 3
        /\ Accumulator[p] = 1610612736
        /\ ~overflowed[p]

----------------------------------------------------------------------------
(* C14 *)

\* C14: the accumulator is always a value of e_s32, so floor(Accumulator /
\* 2^16) lies in -32768..32767 and the cast to e_s16 changes nothing: the
\* coefficient just stored is floor(Accumulator / 2^16) itself.
C14_NarrowingKeepsValue ==
    \A p \in DOMAIN pc :
        /\ Accumulator[p] >= MinS32 /\ Accumulator[p] <= MaxS32
        /\ (Accumulator[p] \div 65536) >= -32768
        /\ (Accumulator[p] \div 65536) <= 32767
        /\ (pc[p] \in {"outer", "done"} /\ Len(writes[p]) > 0) =>
               AutoCorrData[p][lag[p] - 1] = Accumulator[p] \div 65536

\* the coefficient -32768 was stored from an accumulator that had wrapped to
\* the smallest e_s32
C14_Witness ==
    \E p \in DOMAIN pc :
        /\ pc[p] = "outer" /\ Len(writes[p]) > 0
        /\ Accumulator[p] = MinS32
        /\ AutoCorrData[p][lag[p] - 1] = -32768

----------------------------------------------------------------------------
(* C15 *)

\* position of the line l in the console, 0 when it was not printed
PositionOf(l) ==
    IF \E k \in 1..Len(console) : console[k] = l
    THEN CHOOSE k \in 1..Len(console) : console[k] = l
    ELSE 0

\* position of the DONE or Failure line
VerdictPosition ==
    IF PositionOf(">> DONE!") > 0 THEN PositionOf(">> DONE!")
    ELSE PositionOf(">> Failure")

\* C15: th_report_results returns Success exactly when iterations equals
\* rec_iterations and, with a CRC check compiled in, CRC equals Expected_CRC,
\* and Failure otherwise; in both outcomes, when it returns, the DONE or
\* Failure line, the call of al_report_results, the BM line and the ID line
\* have been issued in this order, the ID line last.
C15_ReportResults ==
    rpc = "returned" =>
        /\ returned \in {Success, Failure}
        /\ returned = Success <=>
               /\ tcdef.iterations = tcdef.rec_iterations
               /\ CRCChecked => tcdef.CRC = Expected_CRC
        /\ VerdictPosition > 0
        /\ PositionOf("al_report_results") = VerdictPosition + 1
        /\ PositionOf(">> BM") = VerdictPosition + 2
        /\ PositionOf(">> ID") = VerdictPosition + 3
        /\ Len(console) = VerdictPosition + 3

\* a call with matching CRC and differing iteration counts has returned
\* Failure from a build that checks the CRC
C15_Witness ==
    /\ rpc = "returned" /\ returned = Failure
    /\ build.CRC_CHECK
    /\ tcdef.CRC = Expected_CRC
    /\ tcdef.iterations # tcdef.rec_iterations

====
